---------------------------- MODULE Spec2Model ----------------------------
(***************************************************************************)
(* A model of the two cores of the photo-gallery client:                   *)
(*                                                                         *)
(*   - the HTML preview pipeline of src/src/utils/htmlUtils.ts             *)
(*     (removeHrefAttributes, sanitizeHTML, exceedsWordCount,              *)
(*     truncateHTMLToWords, processPreviewDescription);                    *)
(*   - the photo library hook of src/src/hooks/usePhotoGallery.ts          *)
(*     (loadSaved, addNewToGallery, savePicture, deletePhoto).             *)
(*                                                                         *)
(* Markup strings are sequences of tokens: a character, a start tag with   *)
(* its attribute names, or an end tag.  The browser's fragment parser      *)
(* (the assignment to innerHTML) and serializer (the read of innerHTML)    *)
(* are modelled as ParseHTML and InnerHTML; every function of htmlUtils.ts *)
(* goes string -> DOM -> string as its code does.                          *)
(***************************************************************************)
EXTENDS Integers, Sequences, FiniteSets, TLC

(***************************************************************************)
(* Tokens of a markup string                                               *)
(***************************************************************************)
Chr(c) == [k |-> "chr", n |-> c, at |-> {}]
Open(t, A) == [k |-> "open", n |-> t, at |-> A]
Close(t) == [k |-> "close", n |-> t, at |-> {}]

\* JavaScript's white space, as String.prototype.trim and the regular
\* expression class \s see it (the characters the inputs use).
WhiteSpace == {" ", "\n", "\t"}

IsSpaceAtom(x) == x.k = "chr" /\ x.n \in WhiteSpace

\* The text of a string literal made of one-character words and separators.
Txt(s) == [i \in 1..Len(s) |-> Chr(s[i])]

(***************************************************************************)
(* DOM nodes: a text node holds its data, an element its tag, attribute    *)
(* names and child nodes.                                                  *)
(***************************************************************************)
TextNode(data) == [tag |-> "#text", at |-> {}, kids |-> <<>>, text |-> data]
Element(t, A, ks) == [tag |-> t, at |-> A, kids |-> ks, text |-> <<>>]

IsText(node) == node.tag = "#text"

\* Elements without content or end tag.
VoidTags == {"br", "hr"}
\* Formatting elements: the tree builder keeps them on its list of active
\* formatting elements and re-opens them after a mis-nested end tag.
FormattingTags == {"a"}
\* Elements whose content the tokenizer reads as raw text.
RawTextTags == {"script"}

(***************************************************************************)
(* The tree builder behind `tmp.innerHTML = html`.  st.stack is the stack  *)
(* of open elements (its first entry is the context DIV), st.afl the       *)
(* active formatting element (at most one: an <a> start tag first closes   *)
(* the anchor already listed).                                             *)
(***************************************************************************)
NoFormatting == [on |-> FALSE, at |-> {}]

Top(stack) == stack[Len(stack)]

\* Append one character to the current node: to its last child when that is
\* a text node, as a new text node otherwise.
AppendText(stack, x) ==
    LET top == Top(stack)
        n == Len(top.kids)
        ks == IF n > 0 /\ IsText(top.kids[n])
              THEN [top.kids EXCEPT ![n].text = Append(@, x)]
              ELSE Append(top.kids, TextNode(<<x>>))
    IN [stack EXCEPT ![Len(stack)].kids = ks]

\* Pop the current node into its parent's children.
PopOne(stack) ==
    LET n == Len(stack)
    IN [SubSeq(stack, 1, n - 1) EXCEPT ![n - 1].kids = Append(@, stack[n])]

RECURSIVE PopDownTo(_, _)
\* Pop until the stack is `depth` entries deep.
PopDownTo(stack, depth) ==
    IF Len(stack) <= depth THEN stack ELSE PopDownTo(PopOne(stack), depth)

\* The position of the innermost open element with tag t, 0 when none (the
\* context element at position 1 is never matched).
InnermostOpen(stack, t) ==
    LET hits == {i \in 2..Len(stack) : stack[i].tag = t}
    IN IF hits = {} THEN 0 ELSE CHOOSE i \in hits : \A j \in hits : j <= i

HasOpen(stack, t) == InnermostOpen(stack, t) # 0

\* "Reconstruct the active formatting elements": re-open the listed anchor
\* when a mis-nested end tag has popped it.
Reconstruct(st) ==
    IF st.afl.on /\ ~HasOpen(st.stack, "a")
    THEN [st EXCEPT !.stack = Append(@, Element("a", st.afl.at, <<>>))]
    ELSE st

\* Start tags that first close an open paragraph.
ClosesParagraph == {"p", "div", "ul", "ol", "pre", "hr"}
\* The "special" elements among the tags of the inputs: an end tag of another
\* element does not reach across one of them.
SpecialTags == {"p", "div", "ul", "ol", "li", "pre", "hr", "br", "script"}

StartTag(st, tok) ==
    IF tok.n \in RawTextTags
    THEN [st EXCEPT !.stack = Append(@, Element(tok.n, tok.at, <<>>))]
    ELSE IF tok.n \in FormattingTags
    THEN \* a second <a> closes the listed one (adoption agency, no
         \* furthest block among the elements of the inputs)
         LET i == InnermostOpen(st.stack, tok.n)
             closed == IF st.afl.on /\ i # 0
                       THEN PopDownTo(st.stack, i - 1) ELSE st.stack
         IN [stack |-> Append(closed, Element(tok.n, tok.at, <<>>)),
             afl |-> [on |-> TRUE, at |-> tok.at]]
    ELSE IF tok.n \in SpecialTags \ {"br"}
    THEN \* inserted without reconstructing the formatting elements
         LET p == InnermostOpen(st.stack, "p")
             li == InnermostOpen(st.stack, "li")
             s1 == IF tok.n \in ClosesParagraph /\ p # 0
                   THEN PopDownTo(st.stack, p - 1)
                   ELSE IF tok.n = "li" /\ li # 0
                   THEN PopDownTo(st.stack, li - 1)
                   ELSE st.stack
         IN [st EXCEPT !.stack =
                IF tok.n \in VoidTags
                THEN [s1 EXCEPT ![Len(s1)].kids =
                                   Append(@, Element(tok.n, tok.at, <<>>))]
                ELSE Append(s1, Element(tok.n, tok.at, <<>>))]
    ELSE IF tok.n \in VoidTags
    THEN LET r == Reconstruct(st)
         IN [r EXCEPT !.stack[Len(r.stack)].kids =
                          Append(@, Element(tok.n, tok.at, <<>>))]
    ELSE LET r == Reconstruct(st)
         IN [r EXCEPT !.stack = Append(@, Element(tok.n, tok.at, <<>>))]

EndTag(st, tok) ==
    LET i == InnermostOpen(st.stack, tok.n)
        blocked == \E j \in (i + 1)..Len(st.stack) :
                       st.stack[j].tag \in SpecialTags
    IN IF tok.n \in VoidTags THEN st
       ELSE IF tok.n \in FormattingTags
       THEN \* adoption agency: the listed anchor is closed with what it
            \* holds open and leaves the list; an end tag without a listed
            \* anchor is ignored
            [stack |-> IF st.afl.on /\ i # 0
                       THEN PopDownTo(st.stack, i - 1) ELSE st.stack,
             afl |-> NoFormatting]
       ELSE IF i = 0 THEN st      \* no such element is open: ignored
       ELSE IF tok.n \notin SpecialTags /\ blocked THEN st
       ELSE [st EXCEPT !.stack = PopDownTo(@, i - 1)]

\* One token of the input.  Inside a raw-text element every token up to its
\* end tag is character data.
TreeStep(st, tok) ==
    LET cur == Top(st.stack).tag
    IN IF Len(st.stack) > 1 /\ cur \in RawTextTags
       THEN IF tok.k = "close" /\ tok.n = cur
            THEN [st EXCEPT !.stack = PopOne(@)]
            ELSE [st EXCEPT !.stack = AppendText(@, tok)]
       ELSE IF tok.k = "chr"
       THEN LET r == Reconstruct(st)
            IN [r EXCEPT !.stack = AppendText(@, tok)]
       ELSE IF tok.k = "open" THEN StartTag(st, tok)
       ELSE EndTag(st, tok)

RECURSIVE TreeBuild(_, _, _)
TreeBuild(st, html, i) ==
    IF i > Len(html) THEN st ELSE TreeBuild(TreeStep(st, html[i]), html, i + 1)

\* tmp = document.createElement('DIV'); tmp.innerHTML = html: the children
\* of tmp.
ParseHTML(html) ==
    LET st0 == [stack |-> <<Element("div", {}, <<>>)>>, afl |-> NoFormatting]
        st == TreeBuild(st0, html, 1)
    IN PopDownTo(st.stack, 1)[1].kids

RECURSIVE InnerHTML(_)
\* The read of tmp.innerHTML: the serialization of a list of nodes.
InnerHTML(nodes) ==
    IF nodes = <<>> THEN <<>>
    ELSE LET node == Head(nodes)
             first == IF IsText(node) THEN node.text
                      ELSE IF node.tag \in VoidTags
                      THEN <<Open(node.tag, node.at)>>
                      ELSE <<Open(node.tag, node.at)>> \o InnerHTML(node.kids)
                           \o <<Close(node.tag)>>
         IN first \o InnerHTML(Tail(nodes))

RECURSIVE TextContent(_)
\* node.textContent over a list of nodes: the data of every text node
\* below them, in document order.
TextContent(nodes) ==
    IF nodes = <<>> THEN <<>>
    ELSE LET node == Head(nodes)
         IN (IF IsText(node) THEN node.text ELSE TextContent(node.kids))
            \o TextContent(Tail(nodes))

(***************************************************************************)
(* JavaScript string helpers used by htmlUtils.ts                          *)
(***************************************************************************)
RECURSIVE TrimStart(_)
TrimStart(s) ==
    IF s # <<>> /\ IsSpaceAtom(Head(s)) THEN TrimStart(Tail(s)) ELSE s

RECURSIVE TrimEnd(_)
TrimEnd(s) ==
    IF s # <<>> /\ IsSpaceAtom(s[Len(s)])
    THEN TrimEnd(SubSeq(s, 1, Len(s) - 1)) ELSE s

\* String.prototype.trim
Trim(s) == TrimEnd(TrimStart(s))

RECURSIVE SplitFrom(_, _, _)
\* The pieces of s from position i on, `piece` being the one under way: a run
\* of white space ends a piece.
SplitFrom(s, i, piece) ==
    IF i > Len(s) THEN <<piece>>
    ELSE IF IsSpaceAtom(s[i])
    THEN IF i > 1 /\ IsSpaceAtom(s[i - 1])
         THEN SplitFrom(s, i + 1, piece)
         ELSE <<piece>> \o SplitFrom(s, i + 1, <<>>)
    ELSE SplitFrom(s, i + 1, Append(piece, s[i]))

\* s.split(/\s+/): the empty string splits into one empty piece.
SplitWhitespace(s) == SplitFrom(s, 1, <<>>)

RECURSIVE JoinedLength(_)
\* words.join(' ').length
JoinedLength(words) ==
    IF words = <<>> THEN 0
    ELSE IF Len(words) = 1 THEN Len(words[1])
    ELSE Len(words[1]) + 1 + JoinedLength(Tail(words))

\* s.lastIndexOf(' '), 0-based, -1 when s has no space.
LastIndexOfSpace(s) ==
    LET hits == {i \in 1..Len(s) : s[i] = Chr(" ")}
    IN IF hits = {} THEN -1
       ELSE (CHOOSE i \in hits : \A j \in hits : j <= i) - 1

\* s.substring(0, n)
Substring0(s, n) ==
    SubSeq(s, 1, IF n < 0 THEN 0 ELSE IF n > Len(s) THEN Len(s) ELSE n)

(***************************************************************************)
(* sanitizeHTML: DOMPurify.sanitize with ALLOWED_TAGS and ALLOWED_ATTR     *)
(***************************************************************************)
\* Mutant of ALLOWED_TAGS: script added to the allow-list.
AllowedTagsWithScript ==
    {"a", "p", "strong", "em", "u", "br", "span", "div", "ul", "ol", "li",
     "hr", "code", "pre", "script"}

ALLOWED_TAGS ==
    {"a", "p", "strong", "em", "u", "br", "span", "div", "ul", "ol", "li",
     "hr", "code", "pre"}
ALLOWED_ATTR == {"href", "target", "rel"}
\* DOMPurify's defaults, which the call does not switch off: data-* and
\* aria-* attributes pass (ALLOW_DATA_ATTR, ALLOW_ARIA_ATTR), and an element
\* that is removed keeps its content (KEEP_CONTENT) unless it is one of the
\* FORBID_CONTENTS elements.
DataAriaAttr == {"data-x", "aria-label"}
FORBID_CONTENTS == {"script"}

\* Mutant of KeepsAttr: the ALLOWED_ATTR option left out, so that DOMPurify's
\* default attribute list (which holds class) applies.
KeepsAttrDefaults(tag, name) ==
    name \in {"href", "target", "rel", "class"} \cup DataAriaAttr

\* The attribute filter looks at the attribute's name, not at the element.
KeepsAttr(tag, name) == name \in ALLOWED_ATTR \cup DataAriaAttr

RECURSIVE SanitizeNodes(_)
SanitizeNodes(nodes) ==
    IF nodes = <<>> THEN <<>>
    ELSE LET node == Head(nodes)
             first ==
               IF IsText(node) THEN <<node>>
               ELSE IF node.tag \in ALLOWED_TAGS
               THEN <<Element(node.tag,
                              {x \in node.at : KeepsAttr(node.tag, x)},
                              SanitizeNodes(node.kids))>>
               ELSE IF node.tag \in FORBID_CONTENTS THEN <<>>
               ELSE SanitizeNodes(node.kids)
         IN first \o SanitizeNodes(Tail(nodes))

sanitizeHTML(html) ==
    IF html = <<>> THEN <<>> ELSE InnerHTML(SanitizeNodes(ParseHTML(html)))

(***************************************************************************)
(* stripHTMLTags, exceedsWordCount                                         *)
(***************************************************************************)
stripHTMLTags(html) ==
    IF html = <<>> THEN <<>> ELSE TextContent(ParseHTML(html))

\* Mutant of exceedsWordCount: the guard for the empty string left out.
exceedsWordCountNoGuard(html, wordCount) ==
    Len(SplitWhitespace(Trim(stripHTMLTags(html)))) > wordCount

exceedsWordCount(html, wordCount) ==
    IF html = <<>> THEN FALSE
    ELSE Len(SplitWhitespace(Trim(stripHTMLTags(html)))) > wordCount

(***************************************************************************)
(* removeHrefAttributes                                                    *)
(***************************************************************************)
RECURSIVE StripAnchorsHrefOnly(_)
\* Mutant of StripAnchors: only href is removed.
StripAnchorsHrefOnly(nodes) ==
    [i \in 1..Len(nodes) |->
        IF IsText(nodes[i]) THEN nodes[i]
        ELSE Element(nodes[i].tag,
                     IF nodes[i].tag = "a"
                     THEN nodes[i].at \ {"href"} ELSE nodes[i].at,
                     StripAnchorsHrefOnly(nodes[i].kids))]

RECURSIVE StripAnchors(_)
\* querySelectorAll('a') and the three removeAttribute calls.
StripAnchors(nodes) ==
    [i \in 1..Len(nodes) |->
        IF IsText(nodes[i]) THEN nodes[i]
        ELSE Element(nodes[i].tag,
                     IF nodes[i].tag = "a"
                     THEN nodes[i].at \ {"href", "target", "rel"}
                     ELSE nodes[i].at,
                     StripAnchors(nodes[i].kids))]

\* Mutant of removeHrefAttributes: tmp.outerHTML returned.
removeHrefAttributesOuter(html) ==
    IF html = <<>> THEN <<>>
    ELSE <<Open("div", {})>> \o InnerHTML(StripAnchors(ParseHTML(html)))
         \o <<Close("div")>>

removeHrefAttributes(html) ==
    IF html = <<>> THEN <<>> ELSE InnerHTML(StripAnchors(ParseHTML(html)))

(***************************************************************************)
(* truncateHTMLToWords                                                     *)
(***************************************************************************)
\* hasContent of the parent-pruning loop: some child is a text node whose
\* trimmed data is not empty.
HasContent(kids) ==
    \E i \in 1..Len(kids) : IsText(kids[i]) /\ Trim(kids[i].text) # <<>>

\* Mutant of CutText: substring(finalTruncatePoint), which keeps the text
\* after the cut.
CutTextKeepsTail(nodeText, truncateAt) ==
    LET textBeforeTruncate == Substring0(nodeText, truncateAt)
        lastSpaceIndex == LastIndexOfSpace(textBeforeTruncate)
        finalTruncatePoint ==
            IF lastSpaceIndex > 0 THEN lastSpaceIndex ELSE truncateAt
    IN SubSeq(nodeText, finalTruncatePoint + 1, Len(nodeText))

\* The cut of the text node that crosses the target length.
CutText(nodeText, truncateAt) ==
    LET textBeforeTruncate == Substring0(nodeText, truncateAt)
        lastSpaceIndex == LastIndexOfSpace(textBeforeTruncate)
        finalTruncatePoint ==
            IF lastSpaceIndex > 0 THEN lastSpaceIndex ELSE truncateAt
    IN Substring0(nodeText, finalTruncatePoint)

RECURSIVE TruncateNodes(_, _, _, _)
\* The tree walk over the text nodes below `nodes`, in document order.
\* cur is currentTextLength, found says that the text node to cut has been
\* met.  In the result, prune says that the walk up the parents (from the
\* cut text node's parent, through every parent removed) has reached the
\* owner of `nodes`.
TruncateNodes(nodes, cur, found, target) ==
    IF nodes = <<>>
    THEN [nodes |-> <<>>, cur |-> cur, found |-> found, prune |-> FALSE]
    ELSE LET node == Head(nodes)
             sub == TruncateNodes(node.kids, cur, found, target)
             here ==
               IF IsText(node)
               THEN IF found       \* a later text node: textContent = ''
                    THEN [out |-> <<TextNode(<<>>)>>, cur |-> cur,
                          found |-> TRUE, prune |-> FALSE]
                    ELSE IF cur + Len(node.text) >= target
                    THEN [out |-> <<TextNode(CutText(node.text, target - cur))>>,
                          cur |-> cur, found |-> TRUE, prune |-> TRUE]
                    ELSE [out |-> <<node>>, cur |-> cur + Len(node.text),
                          found |-> FALSE, prune |-> FALSE]
               ELSE IF sub.prune /\ ~HasContent(sub.nodes)
               THEN                \* parent.remove(), on to its parent
                    [out |-> <<>>, cur |-> sub.cur, found |-> sub.found,
                     prune |-> TRUE]
               ELSE [out |-> <<Element(node.tag, node.at, sub.nodes)>>,
                     cur |-> sub.cur, found |-> sub.found, prune |-> FALSE]
             rest == TruncateNodes(Tail(nodes), here.cur, here.found, target)
         IN [nodes |-> here.out \o rest.nodes, cur |-> rest.cur,
             found |-> rest.found, prune |-> here.prune \/ rest.prune]

truncateHTMLToWords(html, wordCount) ==
    IF html = <<>> THEN <<>>
    ELSE LET plainText == stripHTMLTags(html)
             words == SplitWhitespace(Trim(plainText))
             targetWords == SubSeq(words, 1, wordCount)
             targetTextLength == JoinedLength(targetWords)
             tmp == TruncateNodes(ParseHTML(html), 0, FALSE, targetTextLength)
         IN IF Len(words) <= wordCount THEN html
            ELSE Trim(InnerHTML(tmp.nodes))

(***************************************************************************)
(* processPreviewDescription                                               *)
(***************************************************************************)
PREVIEW_WORD_LIMIT == 40

\* The '...' appended to a truncated preview.
Ellipsis == <<Chr("."), Chr("."), Chr(".")>>

\* A description is a string or absent (null, undefined).
Absent == [some |-> FALSE, s |-> <<>>]
Str(s) == [some |-> TRUE, s |-> s]

\* description || ''
OrEmpty(description) == IF description.some THEN description.s ELSE <<>>

processPreviewDescription(description, wordLimit) ==
    LET descriptionText == OrEmpty(description)
        withoutHrefs == removeHrefAttributes(descriptionText)
        sanitized == sanitizeHTML(withoutHrefs)
        needsTruncation == exceedsWordCount(sanitized, wordLimit)
        processedHTML ==
            IF needsTruncation
            THEN truncateHTMLToWords(sanitized, wordLimit) \o Ellipsis
            ELSE sanitized
    IN [withoutHrefs |-> withoutHrefs, sanitized |-> sanitized,
        processedHTML |-> processedHTML, isTruncated |-> needsTruncation]

(***************************************************************************)
(* The descriptions and word limits the pipeline is run on                 *)
(***************************************************************************)
\* The longest markup string made of arbitrary tokens.
MaxLen == 3
\* The most words of a generated text.
MaxWords == 3
\* The largest word limit tried besides PREVIEW_WORD_LIMIT.
MaxWordLimit == 3
\* The most successive applications of removeHrefAttributes.
MaxStrips == 2

AnchorAttrs == {"href", "target", "rel", "onclick", "data-x"}

\* The tokens of the arbitrary strings: characters, an element the sanitizer
\* keeps (span), one it unwraps (mark), one it drops with its content
\* (script), an anchor and a void element; start tags carry attributes of
\* every kind.
Alphabet ==
    {Chr("a"), Chr(" "),
     Open("span", {"href", "class", "onclick"}), Close("span"),
     Open("a", AnchorAttrs), Close("a"),
     Open("script", {}), Close("script"),
     Open("mark", {"rel"}),
     Open("br", {})}

\* Every string of at most MaxLen tokens, well formed or not.
ShortStrings == UNION {[1..n -> Alphabet] : n \in 0..MaxLen}

\* Texts of n words: the words "a" and "bc", separated by a space, two
\* spaces, a newline or a tab.
Words == {<<"a">>, <<"b", "c">>}
Separators == {<<" ">>, <<" ", " ">>, <<"\n">>, <<"\t">>}

RECURSIVE TextsOf(_)
TextsOf(n) ==
    IF n = 0 THEN {<<>>}
    ELSE IF n = 1 THEN Words
    ELSE {t \o sep \o w : t \in TextsOf(n - 1), sep \in Separators, w \in Words}

\* Texts of at most n words, with and without leading and trailing white
\* space.
Texts(n) ==
    LET bare == UNION {TextsOf(m) : m \in 0..n}
    IN {Txt(lead \o t \o trail) :
            lead \in {<<>>, <<" ">>, <<"\n">>}, t \in bare,
            trail \in {<<>>, <<" ">>}}

\* A few short texts for markup of several elements.
ShortTexts ==
    {Txt(t) : t \in {<<>>, <<" ">>, <<"a">>, <<" ", "a">>, <<"b", "c", " ">>}}
PairTexts ==
    ShortTexts
    \cup {Txt(t) : t \in {<<"a", " ", "b", "c">>, <<"\n", "a", "\t", "a">>,
                          <<"b", "c", " ", " ", "a">>, <<"a", "\n", "a">>}}

Wrap(tag, attrs, inner) == <<Open(tag, attrs)>> \o inner \o <<Close(tag)>>

\* Well-formed markup around generated texts: a paragraph, a list of two
\* items, two paragraphs in a wrapper, a paragraph with a link, nested
\* inline elements.
Structured ==
    {Wrap("p", {"onclick"}, t) : t \in Texts(MaxWords)}
    \cup {Wrap("ul", {}, Wrap("li", {}, t1) \o Wrap("li", {"target"}, t2)) :
              t1 \in PairTexts, t2 \in PairTexts}
    \cup {Wrap("div", {"rel"}, Wrap("p", {}, t1) \o Wrap("p", {}, t2)) :
              t1 \in PairTexts, t2 \in PairTexts}
    \cup {Wrap("p", {}, t1 \o Wrap("a", AnchorAttrs, t2) \o t1) :
              t1 \in ShortTexts, t2 \in PairTexts}
    \cup {Wrap("div", {}, Wrap("span", {}, Wrap("em", {"aria-label"}, t1))
                          \o t2 \o <<Open("hr", {})>>) :
              t1 \in PairTexts, t2 \in ShortTexts}

\* Mis-nested markup: two elements opened, the outer one closed first, text
\* before and after.
Misnested ==
    {<<o1, o2>> \o t1 \o <<c>> \o t2 :
        o1 \in {Open("span", {"onclick"}), Open("mark", {})},
        o2 \in {Open("a", AnchorAttrs), Open("span", {"href"})},
        c \in {Close("span"), Close("mark"), Close("a")},
        t1 \in ShortTexts, t2 \in ShortTexts}

\* The two scenarios of the specification's section 8.
FiveWords ==
    Wrap("p", {}, Txt(<<"o", "n", "e", " ", "t", "w", "o", " ", "t", "h", "r",
                        "e", "e", " ", "f", "o", "u", "r", " ", "f", "i", "v",
                        "e">>))
ScriptInside ==
    Wrap("p", {}, Txt(<<"A", " ">>)
                  \o Wrap("script", {}, Txt(<<"a", "l", "e", "r", "t", "(",
                                               "1", ")">>))
                  \o Txt(<<"B">>))

Descriptions ==
    {Absent} \cup {Str(s) : s \in ShortStrings \cup Structured \cup Misnested
                                  \cup {FiveWords, ScriptInside}}

WordLimits == 0..MaxWordLimit \cup {PREVIEW_WORD_LIMIT}

(***************************************************************************)
(* The photo gallery hook: data                                            *)
(***************************************************************************)
\* The clock runs from 0 to MaxClock.
MaxClock == 2
\* A capture is invoked only on a list of fewer than MaxPhotos photos.
MaxPhotos == 2
\* At most MaxCalls captures and deletes are running or await their index
\* write at a time.
MaxCalls == 2
\* At most MaxInvoked captures and deletes are invoked in a run.
MaxInvoked == 3

\* The pictures the camera or the picker can hand over, by their byte count.
Shots == {3}

Platforms == {"web", "hybrid"}

\* Date.now() + '.jpeg'
FileName(t) == [stem |-> t, ext |-> ".jpeg"]

NoFileName == [stem |-> 0, ext |-> ""]

\* A path is a directory prefix (with its slashes) and a last segment.
InData(fileName) == [dir |-> "", name |-> fileName]

\* savedFile.uri: the absolute URI of a file written into Directory.Data.
Uri(fileName) == [dir |-> "file:///data/", name |-> fileName]

NoPath == [dir |-> "", name |-> NoFileName]

\* filepath.includes('/')
IncludesSlash(path) == path.dir # ""

\* parts[parts.length - 1] of filepath.split('/')
LastPart(path) == InData(path.name)

\* The length of the base64 encoding of n bytes.
Base64Length(n) == 4 * ((n + 2) \div 3)

\* What savePicture writes: the base64 of the camera's file on a device, the
\* data URL of the fetched blob on the web.
FileData(plat, shot) ==
    [enc |-> IF plat = "hybrid" THEN "base64" ELSE "dataurl", of |-> shot]

\* The size savePicture records: the length of the base64 string on a device,
\* blob.size on the web.
FileSize(plat, shot) ==
    IF plat = "hybrid" THEN Base64Length(shot) ELSE shot

\* Capacitor.convertFileSrc(savedFile.uri)
ConvertFileSrc(uri) == [scheme |-> "http", ref |-> uri.name.stem]

\* photo.webPath of a picture taken on the web: a blob URL.
WebPath(shot) == [scheme |-> "blob", ref |-> shot]

\* `data:image/jpeg;base64,${readFile.data}`
DataUrl(data) == [scheme |-> "data", ref |-> data.of]

\* The UserPhoto savePicture returns.
SavedPhoto(plat, shot, fileName, t) ==
    IF plat = "hybrid"
    THEN [filepath |-> Uri(fileName),
          webviewPath |-> ConvertFileSrc(Uri(fileName)),
          dateTaken |-> t,
          size |-> FileSize(plat, shot)]
    ELSE [filepath |-> InData(fileName),
          webviewPath |-> WebPath(shot),
          dateTaken |-> t,
          size |-> FileSize(plat, shot)]

NoPhoto ==
    [filepath |-> NoPath, webviewPath |-> [scheme |-> "", ref |-> 0],
     dateTaken |-> 0, size |-> 0]

\* Mutant of NewPhotos: the new photo put last.
NewPhotosAppended(savedImageFile, photoList) == photoList \o <<savedImageFile>>

\* [savedImageFile, ...photos]
NewPhotos(savedImageFile, photoList) == <<savedImageFile>> \o photoList

\* photos.filter((photo) => photo.filepath !== filepath)
UpdatedPhotos(photoList, filepath) ==
    LET Keep(photo) == photo.filepath # filepath
    IN SelectSeq(photoList, Keep)

\* The filepaths of the records of a list.
FilepathsOf(photoList) == {photoList[i].filepath : i \in 1..Len(photoList)}

\* A filepath that names no stored file: no picture is taken at time 0.
Unstored(plat) ==
    IF plat = "hybrid" THEN Uri(FileName(0)) ELSE InData(FileName(0))

\* The path deletePhoto hands to Filesystem.deleteFile.
DeleteName(plat, filepath) ==
    IF plat = "hybrid" /\ IncludesSlash(filepath)
    THEN LastPart(filepath) ELSE filepath

\* Preferences holds strings: JSON.stringify and JSON.parse; no value is null.
NoValue == [set |-> FALSE, json |-> <<>>]
Stringify(photoList) == [set |-> TRUE, json |-> photoList]
ParseIndex(value) == IF value.set THEN value.json ELSE <<>>

\* Byte storage without any file, with a file added, with a file removed.
NoFiles == [name \in {} |-> FileData("web", 0)]

WithFile(fs, name, data) ==
    [n \in DOMAIN fs \cup {name} |-> IF n = name THEN data ELSE fs[n]]

WithoutFile(fs, name) == [n \in DOMAIN fs \ {name} |-> fs[n]]

\* loadSaved carried out from start to end on a given index and byte storage.
LoadSaved(plat, value, fs) ==
    LET photosInPreferences == ParseIndex(value)
    IN IF plat = "hybrid"
       THEN [ok |-> TRUE, photos |-> photosInPreferences]
       ELSE IF \A i \in 1..Len(photosInPreferences) :
                   photosInPreferences[i].filepath \in DOMAIN fs
       THEN [ok |-> TRUE,
             photos |->
                 [i \in 1..Len(photosInPreferences) |->
                     [photosInPreferences[i] EXCEPT
                         !.webviewPath =
                             DataUrl(fs[photosInPreferences[i].filepath])]]]
       ELSE [ok |-> FALSE, photos |-> <<>>]

Calls == 1..MaxCalls

Idle ==
    [kind |-> "idle", at |-> "idle", snapshot |-> <<>>, filepath |-> NoPath,
     shot |-> 0, fileName |-> NoFileName, started |-> 0]

Mounting == [at |-> "get", list |-> <<>>, k |-> 1]

NothingLanded == [kind |-> "none", photo |-> NoPhoto, before |-> <<>>]

\* A call resolves or rejects.
Resolved(kind, filepath) == [kind |-> kind, ok |-> TRUE, filepath |-> filepath]
Rejected(kind, filepath) == [kind |-> kind, ok |-> FALSE, filepath |-> filepath]
NothingSettled == [kind |-> "none", ok |-> TRUE, filepath |-> NoPath]

(***************************************************************************)
(* State                                                                   *)
(***************************************************************************)
VARIABLES
    description,    \* the raw description handed to the pipeline
    pc,             \* "ready" before processPreviewDescription, "done" after
    wordLimit,      \* the word limit of the call
    preview,        \* what the call computed and returned
    links,          \* the results of successive removeHrefAttributes calls
    detail,         \* what a detail page renders: sanitizeHTML(description)
    platform,       \* "hybrid" (iOS, Android) or "web": isPlatform('hybrid')
    now,            \* the clock Date.now() reads
    photos,         \* the hook's photos state, as of the latest render
    prefs,          \* the value stored under PHOTO_STORAGE in Preferences
    files,          \* byte storage: the files of Directory.Data
    pending,        \* Preferences.set calls issued and not yet carried out
    calls,          \* the invocations of addNewToGallery and deletePhoto
    load,           \* the invocation of loadSaved of the mounted hook
    landed,         \* history: the Preferences.set call carried out last
    overlapped,     \* history: an operation was invoked while another was running
    invoked,        \* history: the number of captures and deletes invoked
    prior,          \* history: the Preferences.set call carried out before landed
    outcome,        \* history: how the call that settled last ended
    deleted,        \* history: the filepaths deletePhoto has resolved for
    share,          \* the invocation of sharePhoto: its position and inputs
    sheets,         \* the urls Share.share was invoked with by this call
    attachments,    \* the files navigator.share was invoked with by this call
    downloads,      \* the hrefs of the download links this call clicked
    toast,          \* the message handleShare showed last
    shares,         \* history: the number of sharePhoto calls made
    isLoading,      \* the gallery page's isLoading state
    captures,       \* the captures started from the gallery page, in flight
    toasts,         \* history: the messages the gallery page has shown
    taps            \* history: the number of taps on the capture buttons

previewVars == <<description, pc, wordLimit, preview, links, detail>>

galleryVars ==
    <<platform, now, photos, prefs, files, pending, calls, load, landed,
      overlapped, invoked, prior, outcome, deleted>>

shareVars == <<share, sheets, attachments, downloads, toast, shares>>

pageVars == <<isLoading, captures, toasts, taps>>

vars == <<previewVars, galleryVars, shareVars, pageVars>>

\* The gallery page before any tap: useState(false), no capture, no toast.
PageUnused ==
    /\ isLoading = FALSE
    /\ captures = <<>>
    /\ toasts = <<>>
    /\ taps = 0

\* The position of a sharePhoto call that has not been made.
NotSharing == [at |-> "idle", photo |-> NoPhoto, canShare |-> FALSE]

\* Nothing has been shared.
ShareUnused ==
    /\ share = NotSharing
    /\ sheets = <<>>
    /\ attachments = <<>>
    /\ downloads = <<>>
    /\ toast = ""
    /\ shares = 0

\* The preview pipeline never touches the gallery.
GalleryUnused ==
    /\ platform = "web"
    /\ now = 0
    /\ photos = <<>>
    /\ prefs = NoValue
    /\ files = NoFiles
    /\ pending = <<>>
    /\ calls = [c \in Calls |-> Idle]
    /\ load = Mounting
    /\ landed = NothingLanded
    /\ overlapped = FALSE
    /\ invoked = 0
    /\ prior = NothingLanded
    /\ outcome = NothingSettled
    /\ deleted = {}

NotRendered == [shown |-> FALSE, html |-> <<>>]

NoPreview ==
    [withoutHrefs |-> <<>>, sanitized |-> <<>>, processedHTML |-> <<>>,
     isTruncated |-> FALSE]

PreviewInit ==
    /\ description \in Descriptions
    /\ pc = "ready"
    /\ wordLimit = PREVIEW_WORD_LIMIT
    /\ preview = NoPreview
    /\ links = <<>>
    /\ detail = NotRendered
    /\ GalleryUnused
    /\ ShareUnused
    /\ PageUnused

\* A page renders a preview: processPreviewDescription(description, w).
ProcessPreview ==
    /\ pc = "ready"
    /\ links = <<>>
    /\ \E w \in WordLimits :
          /\ wordLimit' = w
          /\ preview' = processPreviewDescription(description, w)
    /\ pc' = "done"
    /\ UNCHANGED <<description, links, detail, galleryVars, shareVars, pageVars>>

\* removeHrefAttributes applied to the description, then to its own result.
StripLinks ==
    /\ pc = "ready"
    /\ Len(links) < MaxStrips
    /\ links' = Append(links,
                       removeHrefAttributes(IF links = <<>>
                                            THEN OrEmpty(description)
                                            ELSE links[Len(links)]))
    /\ UNCHANGED <<description, pc, wordLimit, preview, detail, galleryVars, shareVars, pageVars>>

\* A detail page renders the description: only sanitizeHTML is applied.
RenderDetail ==
    /\ pc = "ready"
    /\ links = <<>>
    /\ pc' = "detail"
    /\ detail' = [shown |-> TRUE, html |-> sanitizeHTML(OrEmpty(description))]
    /\ UNCHANGED <<description, wordLimit, preview, links, galleryVars, shareVars, pageVars>>

PreviewNext == ProcessPreview \/ StripLinks \/ RenderDetail

SpecPreview == PreviewInit /\ [][PreviewNext]_vars

(***************************************************************************)
(* The photo gallery hook: operations                                      *)
(*                                                                         *)
(* Every await of the code is a point where other operations may run; an   *)
(* operation holds the photos of the render it was invoked from.           *)
(* Preferences.set is not awaited: the call is queued and carried out      *)
(* later, in the order of issue.                                           *)
(***************************************************************************)
GalleryInit ==
    /\ platform \in Platforms
    /\ now = 0
    /\ photos = <<>>
    /\ prefs = NoValue
    /\ files = NoFiles
    /\ pending = <<>>
    /\ calls = [c \in Calls |-> Idle]
    /\ load = Mounting
    /\ landed = NothingLanded
    /\ overlapped = FALSE
    /\ invoked = 0
    /\ prior = NothingLanded
    /\ outcome = NothingSettled
    /\ deleted = {}
    /\ description = Absent
    /\ pc = "ready"
    /\ wordLimit = PREVIEW_WORD_LIMIT
    /\ preview = NoPreview
    /\ links = <<>>
    /\ detail = NotRendered
    /\ ShareUnused
    /\ PageUnused

\* Some operation has been invoked and has not returned.
UnderWay ==
    \/ \E c \in Calls : calls[c].kind # "idle"
    \/ load.at \in {"get", "read", "set"}

\* The operations begun whose index write has not been carried out.
Outstanding ==
    Cardinality({c \in Calls : calls[c].kind # "idle"}) + Len(pending)

\* An invocation takes the first free place.
Free(c) ==
    /\ Outstanding < MaxCalls
    /\ invoked < MaxInvoked
    /\ calls[c].kind = "idle"
    /\ \A d \in Calls : d < c => calls[d].kind # "idle"

\* Mutant of ClosurePhotos: the list as it is when the call resumes, as a
\* functional setPhotos(prev => ...) would see it.
CurrentPhotos(c) == photos

\* The photos an invocation works on: those of the render it was invoked
\* from, whatever has happened to the state since.
ClosurePhotos(c) == calls[c].snapshot

\* Time passes.
Tick ==
    /\ now < MaxClock
    /\ now' = now + 1
    /\ UNCHANGED <<previewVars, shareVars, pageVars, deleted, platform, photos, prefs, files, pending,
                   calls, load, landed, overlapped, invoked,
                   prior, outcome>>

\* loadSaved: await Preferences.get, then JSON.parse.
LoadGet ==
    /\ load.at = "get"
    /\ LET photosInPreferences == ParseIndex(prefs)
       IN load' = [at |-> IF platform = "hybrid" \/ photosInPreferences = <<>>
                          THEN "set" ELSE "read",
                   list |-> photosInPreferences,
                   k |-> 1]
    /\ UNCHANGED <<previewVars, shareVars, pageVars, deleted, platform, now, photos, prefs, files, pending,
                   calls, landed, overlapped, invoked,
                   prior, outcome>>

\* Mutant of LoadReadFile: the file is read and webviewPath is left as the
\* index has it.
LoadReadFileKeepsPath ==
    /\ load.at = "read"
    /\ load.list[load.k].filepath \in DOMAIN files
    /\ load' = [at |-> IF load.k = Len(load.list) THEN "set" ELSE "read",
                list |-> load.list,
                k |-> load.k + 1]
    /\ UNCHANGED <<previewVars, shareVars, pageVars, deleted, platform, now, photos, prefs,
                   files, pending, calls, landed, overlapped, invoked, prior,
                   outcome>>

\* loadSaved on the web: await Filesystem.readFile of the next photo.
LoadReadFile ==
    /\ load.at = "read"
    /\ load.list[load.k].filepath \in DOMAIN files
    /\ load' = [at |-> IF load.k = Len(load.list) THEN "set" ELSE "read",
                list |-> [load.list EXCEPT
                             ![load.k].webviewPath =
                                 DataUrl(files[load.list[load.k].filepath])],
                k |-> load.k + 1]
    /\ UNCHANGED <<previewVars, shareVars, pageVars, deleted, platform, now, photos, prefs, files, pending,
                   calls, landed, overlapped, invoked,
                   prior, outcome>>

\* loadSaved on the web: readFile rejects, nothing catches it, and the load
\* ends without setPhotos.
LoadReadFails ==
    /\ load.at = "read"
    /\ load.list[load.k].filepath \notin DOMAIN files
    /\ load' = [at |-> "failed", list |-> <<>>, k |-> 1]
    /\ UNCHANGED <<previewVars, shareVars, pageVars, deleted, platform, now, photos, prefs, files, pending,
                   calls, landed, overlapped, invoked,
                   prior, outcome>>

\* loadSaved: setPhotos(photosInPreferences).
LoadFinish ==
    /\ load.at = "set"
    /\ photos' = load.list
    /\ load' = [at |-> "done", list |-> <<>>, k |-> 1]
    /\ UNCHANGED <<previewVars, shareVars, pageVars, deleted, platform, now, prefs, files, pending, calls,
                   landed, overlapped, invoked,
                   prior, outcome>>

\* The page is opened again: a new hook with no photos runs loadSaved.
Remount ==
    /\ ~UnderWay
    /\ photos # <<>> \/ load.at = "failed"
    /\ photos' = <<>>
    /\ load' = Mounting
    /\ UNCHANGED <<previewVars, shareVars, pageVars, deleted, platform, now, prefs, files, pending, calls,
                   landed, overlapped, invoked,
                   prior, outcome>>

\* addNewToGallery or selectFromGallery is invoked: await Camera.getPhoto.
AddStart(c) ==
    /\ Free(c)
    /\ Len(photos) < MaxPhotos
    /\ calls' = [calls EXCEPT ![c] =
                    [Idle EXCEPT !.kind = "add", !.at = "camera",
                                 !.snapshot = photos, !.started = now]]
    /\ overlapped' = (overlapped \/ UnderWay)
    /\ invoked' = invoked + 1
    /\ UNCHANGED <<previewVars, shareVars, pageVars, deleted, platform, now, photos, prefs, files, pending,
                   load, landed,
                   prior, outcome>>

\* Camera.getPhoto resolves, some time after the call; the file name is made
\* of the time; savePicture reads the picture.
CameraReturns(c) ==
    /\ calls[c].at = "camera"
    /\ now > calls[c].started
    /\ \E shot \in Shots :
          calls' = [calls EXCEPT ![c].at = "write", ![c].shot = shot,
                                 ![c].fileName = FileName(now),
                                 ![c].started = 0]
    /\ UNCHANGED <<previewVars, shareVars, pageVars, deleted, platform, now, photos, prefs, files, pending,
                   load, landed, overlapped, invoked,
                   prior, outcome>>

\* Camera.getPhoto rejects (the user cancels): addNewToGallery rejects.
CameraCancelled(c) ==
    /\ calls[c].at = "camera"
    /\ outcome' = Rejected("add", NoPath)
    /\ calls' = [calls EXCEPT ![c] = Idle]
    /\ UNCHANGED <<previewVars, shareVars, pageVars, deleted, platform, now, photos, prefs, files, pending,
                   load, landed, overlapped, invoked,
                   prior>>

\* savePicture rejects: reading the captured picture (Filesystem.readFile on
\* a device, fetch on the web) or Filesystem.writeFile fails, nothing is
\* stored, and addNewToGallery rejects.
SaveFails(c) ==
    /\ calls[c].at = "write"
    /\ outcome' = Rejected("add", NoPath)
    /\ calls' = [calls EXCEPT ![c] = Idle]
    /\ UNCHANGED <<previewVars, shareVars, pageVars, deleted, platform, now, photos, prefs,
                   files, pending, load, landed, overlapped, invoked, prior>>

\* Mutant of WriteFile: savePicture goes on without the file being stored.
WriteFileSkipped(c) ==
    /\ calls[c].at = "write"
    /\ calls' = [calls EXCEPT ![c].at = "saved"]
    /\ UNCHANGED <<previewVars, shareVars, pageVars, deleted, platform, now, photos, prefs,
                   files, pending, load, landed, overlapped, invoked, prior,
                   outcome>>

\* savePicture: Filesystem.writeFile is carried out.
WriteFile(c) ==
    /\ calls[c].at = "write"
    /\ files' = WithFile(files, InData(calls[c].fileName),
                         FileData(platform, calls[c].shot))
    /\ calls' = [calls EXCEPT ![c].at = "saved"]
    /\ UNCHANGED <<previewVars, shareVars, pageVars, deleted, platform, now, photos, prefs, pending, load,
                   landed, overlapped, invoked,
                   prior, outcome>>

\* savePicture returns the record; addNewToGallery sets the state and issues
\* the index write.
AddFinish(c) ==
    /\ calls[c].at = "saved"
    /\ LET savedImageFile ==
               SavedPhoto(platform, calls[c].shot, calls[c].fileName, now)
           newPhotos == NewPhotos(savedImageFile, ClosurePhotos(c))
       IN /\ photos' = newPhotos
          /\ pending' = Append(pending,
                               [value |-> Stringify(newPhotos),
                                kind |-> "add",
                                photo |-> savedImageFile,
                                before |-> calls[c].snapshot])
          /\ outcome' = Resolved("add", savedImageFile.filepath)
    /\ calls' = [calls EXCEPT ![c] = Idle]
    /\ UNCHANGED <<previewVars, shareVars, pageVars, deleted, platform, now, prefs, files, load, landed,
                   overlapped, invoked,
                   prior>>

\* deletePhoto is invoked, for a photo on display or with a filepath that
\* names no stored file: await deleteFile.
DeleteStart(c) ==
    /\ Free(c)
    /\ \E filepath \in FilepathsOf(photos) \cup {Unstored(platform)} :
          calls' = [calls EXCEPT ![c] =
                       [Idle EXCEPT !.kind = "delete", !.at = "delete",
                                    !.snapshot = photos,
                                    !.filepath = filepath]]
    /\ overlapped' = (overlapped \/ UnderWay)
    /\ invoked' = invoked + 1
    /\ UNCHANGED <<previewVars, shareVars, pageVars, deleted, platform, now, photos, prefs, files, pending,
                   load, landed,
                   prior, outcome>>

\* deletePhoto: Filesystem.deleteFile is carried out.
DeleteFile(c) ==
    /\ calls[c].at = "delete"
    /\ DeleteName(platform, calls[c].filepath) \in DOMAIN files
    /\ files' = WithoutFile(files, DeleteName(platform, calls[c].filepath))
    /\ calls' = [calls EXCEPT ![c].at = "deleted"]
    /\ UNCHANGED <<previewVars, shareVars, pageVars, deleted, platform, now, photos, prefs, pending, load,
                   landed, overlapped, invoked,
                   prior, outcome>>

\* Mutant of DeleteFails: the list is filtered, set and written to the index
\* before the file is deleted.
DeleteFailsAfterUpdate(c) ==
    /\ calls[c].at = "delete"
    /\ DeleteName(platform, calls[c].filepath) \notin DOMAIN files
    /\ photos' = UpdatedPhotos(calls[c].snapshot, calls[c].filepath)
    /\ pending' = Append(pending,
                         [value |-> Stringify(photos'),
                          kind |-> "delete",
                          photo |-> [NoPhoto EXCEPT
                                        !.filepath = calls[c].filepath],
                          before |-> calls[c].snapshot])
    /\ outcome' = Rejected("delete", calls[c].filepath)
    /\ calls' = [calls EXCEPT ![c] = Idle]
    /\ UNCHANGED <<previewVars, shareVars, pageVars, deleted, platform, now, prefs, files, load, landed,
                   overlapped, invoked, prior>>

\* deletePhoto: deleteFile rejects, there being no such file; the error is
\* logged and thrown again.
DeleteFails(c) ==
    /\ calls[c].at = "delete"
    /\ DeleteName(platform, calls[c].filepath) \notin DOMAIN files
    /\ outcome' = Rejected("delete", calls[c].filepath)
    /\ calls' = [calls EXCEPT ![c] = Idle]
    /\ UNCHANGED <<previewVars, shareVars, pageVars, deleted, platform, now, photos, prefs, files, pending,
                   load, landed, overlapped, invoked,
                   prior>>

\* deletePhoto filters its photos, sets the state and issues the index write.
DeleteFinish(c) ==
    /\ calls[c].at = "deleted"
    /\ LET updatedPhotos ==
               UpdatedPhotos(ClosurePhotos(c), calls[c].filepath)
       IN /\ photos' = updatedPhotos
          /\ pending' = Append(pending,
                               [value |-> Stringify(updatedPhotos),
                                kind |-> "delete",
                                photo |-> [NoPhoto EXCEPT
                                              !.filepath = calls[c].filepath],
                                before |-> calls[c].snapshot])
    /\ outcome' = Resolved("delete", calls[c].filepath)
    /\ deleted' = deleted \cup {calls[c].filepath}
    /\ calls' = [calls EXCEPT ![c] = Idle]
    /\ UNCHANGED <<previewVars, shareVars, pageVars, platform, now, prefs, files, load, landed,
                   overlapped, invoked,
                   prior>>

\* The oldest Preferences.set call issued is carried out.
LandWrite ==
    /\ pending # <<>>
    /\ prefs' = Head(pending).value
    /\ landed' = [kind |-> Head(pending).kind,
                  photo |-> Head(pending).photo,
                  before |-> Head(pending).before]
    /\ prior' = landed
    /\ pending' = Tail(pending)
    /\ UNCHANGED <<previewVars, shareVars, pageVars, deleted, platform, now, photos, files, calls, load,
                   overlapped, invoked,
                   outcome>>

GalleryNext ==
    \/ Tick
    \/ LoadGet
    \/ LoadReadFile
    \/ LoadReadFails
    \/ LoadFinish
    \/ Remount
    \/ \E c \in Calls : AddStart(c)
    \/ \E c \in Calls : CameraReturns(c)
    \/ \E c \in Calls : CameraCancelled(c)
    \/ \E c \in Calls : SaveFails(c)
    \/ \E c \in Calls : WriteFile(c)
    \/ \E c \in Calls : AddFinish(c)
    \/ \E c \in Calls : DeleteStart(c)
    \/ \E c \in Calls : DeleteFile(c)
    \/ \E c \in Calls : DeleteFails(c)
    \/ \E c \in Calls : DeleteFinish(c)
    \/ LandWrite

SpecGallery == GalleryInit /\ [][GalleryNext]_vars

(***************************************************************************)
(* The photo gallery hook: sharePhoto                                      *)
(*                                                                         *)
(* A call runs up to its first await, and goes on when the awaited promise *)
(* settles.  Share.share, fetch and navigator.share may each resolve or    *)
(* reject; creating and clicking the download link does not throw.         *)
(***************************************************************************)
\* The most sharePhoto calls of a run.
MaxShares == 2

\* webviewPath is optional in UserPhoto: the value of an absent one.
NoWebviewPath == [scheme |-> "", ref |-> 0]

\* The photos sharePhoto may be handed: a UserPhoto as savePicture returns
\* it, as loadSaved leaves it on the web (a data URL), and a UserPhoto that
\* has no webviewPath.
SharePhotos(plat) ==
    LET saved == {SavedPhoto(plat, shot, FileName(t), t) :
                      shot \in Shots, t \in 1..MaxClock}
        loaded == IF plat = "hybrid" THEN saved
                  ELSE {[photo EXCEPT
                            !.webviewPath =
                                DataUrl(FileData(plat, photo.size))] :
                            photo \in saved}
        bare == {[photo EXCEPT !.webviewPath = NoWebviewPath] :
                     photo \in saved}
    IN saved \cup loaded \cup bare

\* new File([blob], 'photo.jpg', { type: 'image/jpeg' }) of the fetched url.
PhotoFile(url) == [name |-> "photo.jpg", of |-> url]

\* link.href = photo.webviewPath; link.download = 'photo.jpg'; link.click()
Download(photo) == <<photo.webviewPath>>

ShareInit ==
    /\ platform \in Platforms
    /\ now = 0
    /\ photos = <<>>
    /\ prefs = NoValue
    /\ files = NoFiles
    /\ pending = <<>>
    /\ calls = [c \in Calls |-> Idle]
    /\ load = Mounting
    /\ landed = NothingLanded
    /\ overlapped = FALSE
    /\ invoked = 0
    /\ prior = NothingLanded
    /\ outcome = NothingSettled
    /\ deleted = {}
    /\ description = Absent
    /\ pc = "ready"
    /\ wordLimit = PREVIEW_WORD_LIMIT
    /\ preview = NoPreview
    /\ links = <<>>
    /\ detail = NotRendered
    /\ ShareUnused
    /\ PageUnused

\* handleShare calls sharePhoto(photo), which runs to its first await: on a
\* device Share.share is invoked if the photo has a webviewPath, and
\* otherwise the call returns; on the web fetch is invoked if navigator.share
\* exists and the photo has a webviewPath, and otherwise the download link
\* is clicked and the call returns.
SharePhoto ==
    /\ share.at = "idle"
    /\ shares < MaxShares
    /\ shares' = shares + 1
    /\ toast' = ""
    /\ attachments' = <<>>
    /\ \E photo \in SharePhotos(platform), canShare \in BOOLEAN :
          LET present == photo.webviewPath # NoWebviewPath
              At(position) ==
                  [at |-> position, photo |-> photo, canShare |-> canShare]
          IN IF platform = "hybrid"
             THEN /\ share' = At(IF present THEN "native" ELSE "resolved")
                  /\ sheets' = IF present THEN <<photo.webviewPath>> ELSE <<>>
                  /\ downloads' = <<>>
             ELSE /\ share' = At(IF canShare /\ present
                                 THEN "fetch" ELSE "resolved")
                  /\ sheets' = <<>>
                  /\ downloads' = IF canShare /\ present
                                  THEN <<>> ELSE Download(photo)
    /\ UNCHANGED <<previewVars, galleryVars, pageVars>>

\* await Share.share resolves: sharePhoto returns.
NativeShareResolves ==
    /\ share.at = "native"
    /\ share' = [share EXCEPT !.at = "resolved"]
    /\ UNCHANGED <<previewVars, galleryVars, pageVars, sheets, attachments, downloads,
                   toast, shares>>

\* Mutant of NativeShareRejects: the failure is caught and the download link
\* is clicked.
NativeShareRejectsFallsBack ==
    /\ share.at = "native"
    /\ share' = [share EXCEPT !.at = "resolved"]
    /\ downloads' = downloads \o Download(share.photo)
    /\ UNCHANGED <<previewVars, galleryVars, pageVars, sheets, attachments, toast,
                   shares>>

\* await Share.share rejects: the outer catch logs the error and throws it.
NativeShareRejects ==
    /\ share.at = "native"
    /\ share' = [share EXCEPT !.at = "rejected"]
    /\ UNCHANGED <<previewVars, galleryVars, pageVars, sheets, attachments, downloads,
                   toast, shares>>

\* fetch and response.blob() resolve: the File is made and navigator.share
\* is invoked with it.
FetchResolves ==
    /\ share.at = "fetch"
    /\ share' = [share EXCEPT !.at = "navigator"]
    /\ attachments' = <<PhotoFile(share.photo.webviewPath)>>
    /\ UNCHANGED <<previewVars, galleryVars, pageVars, sheets, downloads, toast,
                   shares>>

\* fetch or response.blob() rejects: the inner catch clicks the download
\* link and sharePhoto returns.
FetchRejects ==
    /\ share.at = "fetch"
    /\ share' = [share EXCEPT !.at = "resolved"]
    /\ downloads' = downloads \o Download(share.photo)
    /\ UNCHANGED <<previewVars, galleryVars, pageVars, sheets, attachments, toast,
                   shares>>

\* await navigator.share resolves: sharePhoto returns.
NavigatorShareResolves ==
    /\ share.at = "navigator"
    /\ share' = [share EXCEPT !.at = "resolved"]
    /\ UNCHANGED <<previewVars, galleryVars, pageVars, sheets, attachments, downloads,
                   toast, shares>>

\* Mutant of NavigatorShareRejects: the failure is thrown to the caller.
NavigatorShareRejectsRaised ==
    /\ share.at = "navigator"
    /\ share' = [share EXCEPT !.at = "rejected"]
    /\ UNCHANGED <<previewVars, galleryVars, pageVars, sheets, attachments, downloads,
                   toast, shares>>

\* await navigator.share rejects: the inner catch clicks the download link
\* and sharePhoto returns.
NavigatorShareRejects ==
    /\ share.at = "navigator"
    /\ share' = [share EXCEPT !.at = "resolved"]
    /\ downloads' = downloads \o Download(share.photo)
    /\ UNCHANGED <<previewVars, galleryVars, pageVars, sheets, attachments, toast,
                   shares>>

\* handleShare after await sharePhoto(photo) resolved.
HandleShareSucceeds ==
    /\ share.at = "resolved"
    /\ share' = [share EXCEPT !.at = "idle"]
    /\ toast' = "Photo shared successfully!"
    /\ UNCHANGED <<previewVars, galleryVars, pageVars, sheets, attachments, downloads,
                   shares>>

\* handleShare after await sharePhoto(photo) rejected: its catch.
HandleShareFails ==
    /\ share.at = "rejected"
    /\ share' = [share EXCEPT !.at = "idle"]
    /\ toast' = "Failed to share photo."
    /\ UNCHANGED <<previewVars, galleryVars, pageVars, sheets, attachments, downloads,
                   shares>>

ShareNext ==
    \/ SharePhoto
    \/ NativeShareResolves
    \/ NativeShareRejects
    \/ FetchResolves
    \/ FetchRejects
    \/ NavigatorShareResolves
    \/ NavigatorShareRejects
    \/ HandleShareSucceeds
    \/ HandleShareFails

SpecShare == ShareInit /\ [][ShareNext]_vars

(***************************************************************************)
(* The gallery page: the capture buttons                                   *)
(*                                                                         *)
(* A tap runs a handler up to its await of the hook's capture; the state   *)
(* updates of a handler are rendered before the next tap is handled.       *)
(***************************************************************************)
\* The most taps on the capture buttons in a run.
MaxTaps == 3

\* Mutant of ButtonDisabled: the buttons are never disabled.
ButtonNeverDisabled == FALSE

\* disabled={isLoading}, on both capture buttons.
ButtonDisabled == isLoading

\* A capture the page has started: the source handed to Camera.getPhoto and
\* how far addNewToGallery has got (awaiting the camera, then savePicture).
PageCapture(source) == [source |-> source, at |-> "camera"]

\* The capture at place i leaves the captures in flight.
WithoutCapture(i) ==
    SubSeq(captures, 1, i - 1) \o SubSeq(captures, i + 1, Len(captures))

\* The messages of handleAddPhoto and handleSelectFromGallery.
SuccessMessage(source) ==
    IF source = "Camera" THEN "Photo added successfully!"
    ELSE "Photo added from gallery!"
ErrorMessage(source) ==
    IF source = "Camera" THEN "Failed to add photo. Please try again."
    ELSE "Failed to select photo from gallery."

PageInit ==
    /\ platform \in Platforms
    /\ now = 0
    /\ photos = <<>>
    /\ prefs = NoValue
    /\ files = NoFiles
    /\ pending = <<>>
    /\ calls = [c \in Calls |-> Idle]
    /\ load = Mounting
    /\ landed = NothingLanded
    /\ overlapped = FALSE
    /\ invoked = 0
    /\ prior = NothingLanded
    /\ outcome = NothingSettled
    /\ deleted = {}
    /\ description = Absent
    /\ pc = "ready"
    /\ wordLimit = PREVIEW_WORD_LIMIT
    /\ preview = NoPreview
    /\ links = <<>>
    /\ detail = NotRendered
    /\ ShareUnused
    /\ PageUnused

\* A tap on the camera button while it is not disabled: the handler sets
\* isLoading and calls addNewToGallery().
handleAddPhoto ==
    /\ ~ButtonDisabled
    /\ taps < MaxTaps
    /\ taps' = taps + 1
    /\ isLoading' = TRUE
    /\ captures' = Append(captures, PageCapture("Camera"))
    /\ UNCHANGED <<previewVars, galleryVars, shareVars, toasts>>

\* A tap on the picker button while it is not disabled: the handler sets
\* isLoading and calls selectFromGallery(), addNewToGallery(Photos).
handleSelectFromGallery ==
    /\ ~ButtonDisabled
    /\ taps < MaxTaps
    /\ taps' = taps + 1
    /\ isLoading' = TRUE
    /\ captures' = Append(captures, PageCapture("Photos"))
    /\ UNCHANGED <<previewVars, galleryVars, shareVars, toasts>>

\* Camera.getPhoto resolves: addNewToGallery goes on to savePicture.
PagePhotoTaken ==
    /\ \E i \in 1..Len(captures) :
          /\ captures[i].at = "camera"
          /\ captures' = [captures EXCEPT ![i].at = "save"]
    /\ UNCHANGED <<previewVars, galleryVars, shareVars, isLoading, toasts,
                   taps>>

\* The capture resolves: the handler shows its success message, and its
\* finally sets isLoading to false.
PageCaptureSucceeds ==
    /\ \E i \in 1..Len(captures) :
          /\ captures[i].at = "save"
          /\ toasts' = Append(toasts, SuccessMessage(captures[i].source))
          /\ captures' = WithoutCapture(i)
    /\ isLoading' = FALSE
    /\ UNCHANGED <<previewVars, galleryVars, shareVars, taps>>

\* The capture rejects (the camera is cancelled, or savePicture fails): the
\* handler's catch shows its error message, and its finally sets isLoading
\* to false.
PageCaptureFails ==
    /\ \E i \in 1..Len(captures) :
          /\ toasts' = Append(toasts, ErrorMessage(captures[i].source))
          /\ captures' = WithoutCapture(i)
    /\ isLoading' = FALSE
    /\ UNCHANGED <<previewVars, galleryVars, shareVars, taps>>

PageNext ==
    \/ handleAddPhoto
    \/ handleSelectFromGallery
    \/ PagePhotoTaken
    \/ PageCaptureSucceeds
    \/ PageCaptureFails

SpecPage == PageInit /\ [][PageNext]_vars

(***************************************************************************)
(* Notions the properties are stated with                                  *)
(***************************************************************************)
\* The words of a text: its maximal runs of characters that are not white
\* space.
RECURSIVE WordList(_)
WordList(s) ==
    IF s = <<>> THEN <<>>
    ELSE IF IsSpaceAtom(Head(s)) THEN WordList(Tail(s))
    ELSE LET n == CHOOSE m \in 1..Len(s) :
                      /\ \A i \in 1..m : ~IsSpaceAtom(s[i])
                      /\ m = Len(s) \/ IsSpaceAtom(s[m + 1])
         IN <<SubSeq(s, 1, n)>> \o WordList(SubSeq(s, n + 1, Len(s)))

WordCount(s) == Len(WordList(s))

\* The plain text of a markup string.
PlainText(html) == TextContent(ParseHTML(html))

RECURSIVE VisibleText(_)
\* The text of a list of nodes outside script elements.
VisibleText(nodes) ==
    IF nodes = <<>> THEN <<>>
    ELSE LET node == Head(nodes)
         IN (IF IsText(node) THEN node.text
             ELSE IF node.tag = "script" THEN <<>>
             ELSE VisibleText(node.kids))
            \o VisibleText(Tail(nodes))

RECURSIVE DropScripts(_)
\* A list of nodes without its script elements.
DropScripts(nodes) ==
    IF nodes = <<>> THEN <<>>
    ELSE LET node == Head(nodes)
         IN (IF IsText(node) THEN <<node>>
             ELSE IF node.tag = "script" THEN <<>>
             ELSE <<Element(node.tag, node.at, DropScripts(node.kids))>>)
            \o DropScripts(Tail(nodes))

RECURSIVE AnchorTexts(_)
\* The visible text of every anchor element, in document order.
AnchorTexts(nodes) ==
    IF nodes = <<>> THEN <<>>
    ELSE LET node == Head(nodes)
         IN (IF IsText(node) \/ node.tag = "script" THEN <<>>
             ELSE IF node.tag = "a" THEN <<VisibleText(node.kids)>>
             ELSE AnchorTexts(node.kids))
            \o AnchorTexts(Tail(nodes))

\* The start tags of a markup string without raw text.
StartTags(html) == {html[i] : i \in {j \in 1..Len(html) : html[j].k = "open"}}
TagNames(html) == {html[i].n : i \in {j \in 1..Len(html) : html[j].k # "chr"}}

\* processedHTML without the marker appended to a truncated preview.
WithoutMarker ==
    IF preview.isTruncated
    THEN SubSeq(preview.processedHTML, 1,
                Len(preview.processedHTML) - Len(Ellipsis))
    ELSE preview.processedHTML

EndsWithMarker ==
    LET h == preview.processedHTML
    IN /\ Len(h) >= Len(Ellipsis)
       /\ SubSeq(h, Len(h) - Len(Ellipsis) + 1, Len(h)) = Ellipsis

SanitizedWords == WordList(PlainText(preview.sanitized))

(***************************************************************************)
(* The preview pipeline: properties                                        *)
(***************************************************************************)
\* C1 (as the specification states it): after processPreviewDescription(d, w),
\* isTruncated is true exactly when the plain text of the sanitized,
\* link-neutralized description has more than w words, also for markup whose
\* text has no word at all and w = 0.
C1_TruncatedIffMoreWords ==
    pc = "done" =>
        (preview.isTruncated <=> Len(SanitizedWords) > wordLimit)

\* C2: the visible text of processedHTML, the marker aside, has at most w
\* words.
C2_AtMostLimitWords ==
    pc = "done" => WordCount(PlainText(WithoutMarker)) <= wordLimit

\* C2 witness: a preview truncated to exactly w >= 1 words whose text has
\* leading white space or a separator other than one space.
C2_Witness ==
    /\ pc = "done"
    /\ preview.isTruncated
    /\ wordLimit >= 1
    /\ WordCount(PlainText(WithoutMarker)) = wordLimit
    /\ \E i \in 1..Len(preview.sanitized) :
           preview.sanitized[i] \in {Chr("\n"), Chr("\t")}

\* C3 (as the specification states it): when the sanitized text has more
\* than w words, the preview keeps exactly its first w words and ends with
\* the marker; five words in one paragraph and w = 3 give the paragraph of
\* the first three words.
C3_KeepsFirstWords ==
    (pc = "done" /\ Len(SanitizedWords) > wordLimit) =>
        /\ preview.isTruncated
        /\ EndsWithMarker
        /\ WordList(PlainText(WithoutMarker))
               = SubSeq(SanitizedWords, 1, wordLimit)
        /\ (description = Str(FiveWords) /\ wordLimit = 3) =>
               WithoutMarker
                   = Wrap("p", {}, Txt(<<"o", "n", "e", " ", "t", "w", "o",
                                         " ", "t", "h", "r", "e", "e">>))

\* C4 (as the specification states it): when the sanitized text has at most
\* w words, truncateHTMLToWords returns its input and processedHTML is the
\* sanitized markup, without marker.
C4_PassThroughUnchanged ==
    (pc = "done" /\ Len(SanitizedWords) <= wordLimit) =>
        /\ truncateHTMLToWords(preview.sanitized, wordLimit)
               = preview.sanitized
        /\ preview.processedHTML = preview.sanitized
        /\ preview.sanitized
               = sanitizeHTML(removeHrefAttributes(OrEmpty(description)))

\* C5: an empty or absent description gives processedHTML = "" and
\* isTruncated = false, for every word limit.
C5_EmptyDescription ==
    (pc = "done" /\ (description = Absent \/ description = Str(<<>>))) =>
        /\ preview.processedHTML = <<>>
        /\ preview.isTruncated = FALSE

\* C5 witness: the absent description processed with word limit 0.
C5_Witness ==
    /\ pc = "done"
    /\ description = Absent
    /\ wordLimit = 0
    /\ preview.processedHTML = <<>>

\* What the sanitizer lets through, on a detail page and in a preview.
Rendered == IF pc = "detail" THEN detail.html ELSE preview.processedHTML

\* C6 (as the specification states it): rendered markup holds only
\* allow-listed tags, href, target and rel survive only on anchors, and a
\* non-anchor element keeps no attribute.
C6_AttributesOnlyOnAnchors ==
    pc \in {"done", "detail"} =>
        /\ TagNames(Rendered) \subseteq ALLOWED_TAGS
        /\ \A t \in StartTags(Rendered) :
               IF t.n = "a" THEN t.at \subseteq ALLOWED_ATTR ELSE t.at = {}

\* C6 (amended): rendered markup holds only allow-listed tags; the only
\* attributes that survive are href, target, rel and data-*/aria-*
\* attributes, on whatever element they stand; truncation and the marker
\* add no tag and no attribute.
C6_OnlyAllowedTagsAndAttrs ==
    pc \in {"done", "detail"} =>
        /\ TagNames(Rendered) \subseteq ALLOWED_TAGS
        /\ \A t \in StartTags(Rendered) :
               t.at \subseteq ALLOWED_ATTR \cup DataAriaAttr
        /\ pc = "done" =>
               StartTags(preview.processedHTML)
                   \subseteq StartTags(preview.sanitized)

\* C6 witness: a truncated preview in which a span still carries href.
C6_Witness ==
    /\ pc = "done"
    /\ preview.isTruncated
    /\ \E t \in StartTags(preview.processedHTML) :
           t.n = "span" /\ "href" \in t.at
    /\ \E i \in 1..Len(description.s) : "onclick" \in description.s[i].at

C9_ScenarioTextAB ==
    (pc = "done" /\ description = Str(ScriptInside)
        /\ wordLimit = PREVIEW_WORD_LIMIT) =>
        /\ \E i \in 1..(Len(PlainText(preview.processedHTML)) - 1) :
               /\ PlainText(preview.processedHTML)[i] = Chr("A")
               /\ PlainText(preview.processedHTML)[i + 1] = Chr("B")
        /\ "script" \notin TagNames(preview.processedHTML)
        /\ preview.isTruncated = FALSE

\* C9 (amended): the scenario's preview is the paragraph with the text
\* "A B" (the space before the script element stays), without script tag and
\* not truncated; in general no script element reaches processedHTML, the
\* text that is counted against the word limit is the description's text
\* outside script elements, and the preview is the one the description
\* without its script elements gets.
C9_ScriptDropped ==
    pc = "done" =>
        /\ "script" \notin TagNames(preview.processedHTML)
        /\ PlainText(preview.sanitized)
               = VisibleText(ParseHTML(OrEmpty(description)))
        /\ LET clean == processPreviewDescription(
                            Str(InnerHTML(DropScripts(
                                    ParseHTML(OrEmpty(description))))),
                            wordLimit)
           IN /\ preview.processedHTML = clean.processedHTML
              /\ preview.isTruncated = clean.isTruncated
        /\ (description = Str(ScriptInside)
                /\ wordLimit = PREVIEW_WORD_LIMIT) =>
               /\ preview.processedHTML
                      = Wrap("p", {}, Txt(<<"A", " ", "B">>))
               /\ preview.isTruncated = FALSE

\* C9 witness: the scenario processed with the standard word limit.
C9_Witness ==
    /\ pc = "done"
    /\ description = Str(ScriptInside)
    /\ wordLimit = PREVIEW_WORD_LIMIT
    /\ PlainText(preview.processedHTML) = Txt(<<"A", " ", "B">>)

(***************************************************************************)
(* The photo gallery hook: properties                                      *)
(***************************************************************************)
\* No operation is under way and no index write is outstanding.
Quiet ==
    /\ \A c \in Calls : calls[c].kind = "idle"
    /\ pending = <<>>

\* What identifies a record: loadSaved on the web replaces webviewPath.
Identity(photo) ==
    [filepath |-> photo.filepath, dateTaken |-> photo.dateTaken,
     size |-> photo.size]

Identities(photoList) ==
    [i \in 1..Len(photoList) |-> Identity(photoList[i])]

\* A fresh load gives the captured photo, then the photos the capture
\* started from, and the captured photo's file is in byte storage.
CaptureLoadsBack ==
    LET fresh == LoadSaved(platform, prefs, files)
    IN /\ fresh.ok
       /\ Identities(fresh.photos)
              = Identities(<<landed.photo>> \o landed.before)
       /\ DeleteName(platform, landed.photo.filepath) \in DOMAIN files

C11_DeleteRemovesEverywhere ==
    [][\A c \in Calls :
          DeleteFinish(c) =>
              LET filepath == calls[c].filepath
                  fresh == LoadSaved(platform, prefs', files')
              IN /\ filepath \notin FilepathsOf(photos')
                 /\ fresh.ok => filepath \notin FilepathsOf(fresh.photos)
                 /\ DeleteName(platform, filepath) \notin DOMAIN files'
                 /\ platform = "hybrid" =>
                        DeleteName(platform, filepath)
                            = InData(filepath.name)]_vars

\* C12: when Filesystem.deleteFile rejects, deletePhoto rejects, and neither
\* the in-memory list nor the persisted index changes: no state is set, no
\* index write is issued, no file is touched; with the operations invoked
\* one at a time the list is the one the call was made on.
C12_FailedDeleteChangesNothing ==
    [][\A c \in Calls :
          DeleteFails(c) =>
              /\ outcome' = Rejected("delete", calls[c].filepath)
              /\ photos' = photos
              /\ prefs' = prefs
              /\ pending' = pending
              /\ files' = files
              /\ ~overlapped => photos' = calls[c].snapshot]_vars

\* C12 witness: with operations one at a time, deletePhoto has rejected for
\* a filepath that names no stored file, the list holding a photo.
C12_Witness ==
    /\ outcome = Rejected("delete", Unstored(platform))
    /\ ~overlapped
    /\ photos # <<>>
    /\ ParseIndex(prefs) = photos
    /\ Quiet

\* What an index write makes of a list: the capture's record put first, or
\* the records of the deleted filepath left out.
Applied(write, photoList) ==
    IF write.kind = "add" THEN <<write.photo>> \o photoList
    ELSE LET Keep(photo) == photo.filepath # write.photo.filepath
         IN SelectSeq(photoList, Keep)

\* The two index writes carried out last were computed from the same list.
SameSnapshot ==
    /\ prior.kind # "none"
    /\ landed.kind # "none"
    /\ prior.before = landed.before

\* C13: when two captures or deletes (not two deletes of one filepath) that
\* started from the same list have both completed and had their index
\* writes carried out one after the other, the persisted index is the later
\* rewrite, computed from that list alone, and not the list both mutations
\* together give: the earlier mutation is lost.
C13_LaterRewriteWins ==
    (SameSnapshot /\ ~(prior.kind = "delete" /\ landed.kind = "delete"
                        /\ prior.photo.filepath = landed.photo.filepath)) =>
        /\ ParseIndex(prefs) = Applied(landed, landed.before)
        /\ ParseIndex(prefs) # Applied(landed, Applied(prior, landed.before))
        /\ ParseIndex(prefs) # Applied(prior, Applied(landed, landed.before))

\* C13 witness: two captures made from the same list have both completed;
\* the list and the index hold one record more, not two, the first capture's
\* record is in neither, and its file is in byte storage.
C13_Witness ==
    /\ SameSnapshot
    /\ prior.kind = "add"
    /\ landed.kind = "add"
    /\ Quiet
    /\ photos = ParseIndex(prefs)
    /\ Len(photos) = Len(landed.before) + 1
    /\ prior.photo.filepath \notin FilepathsOf(photos)
    /\ DeleteName(platform, prior.photo.filepath) \in DOMAIN files

\* The records of a list, by what identifies them.
RecordsOf(photoList) == {Identity(photoList[i]) : i \in 1..Len(photoList)}

\* C14 (as the specification states it): a record leaves the in-memory list
\* of a mounted hook only in the step in which a deletePhoto call made with
\* its filepath sets the state: no capture and no completion of the load
\* removes a record.
C14_OnlyDeleteRemoves ==
    [][\/ Remount
       \/ \A record \in RecordsOf(photos) \ RecordsOf(photos') :
              \E c \in Calls :
                  /\ DeleteFinish(c)
                  /\ calls[c].filepath = record.filepath]_vars

\* Adjacent records are in non-increasing order of dateTaken.
NewestFirst(photoList) ==
    \A i \in 1..(Len(photoList) - 1) :
        photoList[i].dateTaken >= photoList[i + 1].dateTaken

\* C15: whatever loads, captures and deletes have run and however they
\* interleaved, the in-memory list and the persisted index are both ordered
\* newest-first by dateTaken.
C15_NewestFirst ==
    /\ NewestFirst(photos)
    /\ NewestFirst(ParseIndex(prefs))

\* Two photos taken at different times are on display and in the index.
C15_Witness ==
    /\ Quiet
    /\ Len(photos) = 2
    /\ photos[1].dateTaken > photos[2].dateTaken
    /\ Identities(ParseIndex(prefs)) = Identities(photos)

\* C16 (as the specification states it): in the web context a read that
\* fails during the load skips that entry only: the load goes on to the next
\* entry or to setPhotos, and every other entry of the index is still in the
\* list being loaded.
C16_UnreadableEntrySkipped ==
    [][LoadReadFails =>
           /\ platform = "web"
           /\ load'.at \in {"read", "set"}
           /\ \A i \in (1..Len(load.list)) \ {load.k} :
                  load.list[i].filepath \in FilepathsOf(load'.list)]_vars

\* The photo of the sharePhoto call has a webviewPath.
HasWebviewPath(photo) == photo.webviewPath # NoWebviewPath

\* A step in which the share attempt of the web fails: the fetch of the
\* url, or navigator.share.
WebShareFails == FetchRejects \/ NavigatorShareRejects

\* C17: in the web context sharePhoto attempts the share (fetching the url
\* for navigator.share) when navigator.share exists and the photo has a
\* webviewPath, and clicks no download link then; when the attempt fails, at
\* the fetch or at navigator.share, or when navigator.share does not exist,
\* it clicks one download link for the photo's webviewPath and resolves; it
\* never rejects.
C17_WebShareFallsBackToDownload ==
    [][platform = "web" =>
           /\ SharePhoto =>
                  /\ (share'.canShare /\ HasWebviewPath(share'.photo)) =>
                         /\ share'.at = "fetch"
                         /\ downloads' = <<>>
                  /\ ~share'.canShare =>
                         /\ share'.at = "resolved"
                         /\ downloads' = <<share'.photo.webviewPath>>
           /\ FetchResolves =>
                  attachments' = <<PhotoFile(share.photo.webviewPath)>>
           /\ WebShareFails =>
                  /\ share'.at = "resolved"
                  /\ downloads' = <<share.photo.webviewPath>>
           /\ share'.at # "rejected"]_vars

\* navigator.share was invoked with the photo's file and failed: the
\* download link was clicked and sharePhoto resolved.
C17_Witness ==
    /\ platform = "web"
    /\ share.at = "resolved"
    /\ share.canShare
    /\ attachments = <<PhotoFile(share.photo.webviewPath)>>
    /\ downloads = <<share.photo.webviewPath>>

\* C18 (as the specification states it): in both contexts a failure of the
\* share attempt is caught inside sharePhoto, which clicks the download link
\* and resolves.
C18_FailureFallsBackEverywhere ==
    [][(NativeShareRejects \/ WebShareFails) =>
           /\ share'.at = "resolved"
           /\ downloads' = <<share.photo.webviewPath>>]_vars

\* C18 (amended): on the web a failure of the share attempt is caught inside
\* sharePhoto, which clicks the download link and resolves; on a device
\* there is no fallback, and a failure of Share.share reaches the caller with
\* no download link clicked.  sharePhoto rejects in no other case.
C18_FailureFallsBackOnWebOnly ==
    [][/\ WebShareFails =>
              /\ platform = "web"
              /\ share'.at = "resolved"
              /\ downloads' = <<share.photo.webviewPath>>
       /\ NativeShareRejects =>
              /\ platform = "hybrid"
              /\ share'.at = "rejected"
              /\ downloads' = <<>>
       /\ (share.at # "rejected" /\ share'.at = "rejected") =>
              NativeShareRejects]_vars

\* On a device the share sheet failed: handleShare reported the failure and
\* no download link was clicked.
C18_Witness ==
    /\ platform = "hybrid"
    /\ toast = "Failed to share photo."
    /\ sheets = <<share.photo.webviewPath>>
    /\ downloads = <<>>

C20_SizeIsByteCount ==
    [][\A c \in Calls :
           AddFinish(c) => photos'[1].size = calls[c].shot]_vars

(***************************************************************************)
(* Truncation: words and ancestors                                         *)
(***************************************************************************)
\* The elements of a sequence.
Range(s) == {s[i] : i \in 1..Len(s)}

\* C21 (as the specification states it): truncation never cuts inside a
\* word: every word of the text of a truncated preview (the marker left
\* out) is a whole word of the text that was truncated.
C21_NoWordCut ==
    (pc # "ready" /\ preview.isTruncated) =>
        Range(WordList(PlainText(WithoutMarker))) \subseteq Range(SanitizedWords)

RECURSIVE TextsInOrder(_)
\* The texts of the text nodes below `nodes`, in document order.
TextsInOrder(nodes) ==
    IF nodes = <<>> THEN <<>>
    ELSE LET node == Head(nodes)
         IN (IF IsText(node) THEN <<node.text>>
             ELSE TextsInOrder(node.kids))
            \o TextsInOrder(Tail(nodes))

RECURSIVE KeptText(_, _, _)
\* The text the cut keeps: the text nodes before the one that crosses the
\* target length, and that one up to its cut.
KeptText(texts, cur, target) ==
    IF texts = <<>> THEN <<>>
    ELSE IF cur + Len(Head(texts)) >= target
    THEN CutText(Head(texts), target - cur)
    ELSE Head(texts) \o KeptText(Tail(texts), cur + Len(Head(texts)), target)

\* The target length truncateHTMLToWords computes for the sanitized text.
TargetTextLength ==
    JoinedLength(SubSeq(SplitWhitespace(Trim(stripHTMLTags(preview.sanitized))),
                        1, wordLimit))

\* C22 (as the specification states it): the removal of emptied ancestors
\* takes no visible text with it: the words of a truncated preview (the
\* marker left out) are the words of the text the cut keeps.
C22_PrecedingTextKept ==
    (pc = "done" /\ preview.isTruncated) =>
        WordList(PlainText(WithoutMarker))
            = WordList(KeptText(TextsInOrder(ParseHTML(preview.sanitized)),
                                0, TargetTextLength))

(***************************************************************************)
(* The photo gallery hook: further properties                              *)
(***************************************************************************)
\* C23 (as the specification states it): in the step in which addNewToGallery
\* or deletePhoto resolves, no index write is outstanding and the persisted
\* index holds the records of the in-memory list.
C23_IndexWrittenOnResolve ==
    [][\A c \in Calls :
           (AddFinish(c) \/ DeleteFinish(c)) =>
               /\ pending' = <<>>
               /\ Identities(ParseIndex(prefs')) = Identities(photos')]_vars

\* The filepaths of the records held anywhere: in the in-memory list, the
\* persisted index, the index writes issued, and the lists that the running
\* operations and the load took a copy of.
Recorded ==
    FilepathsOf(photos)
    \cup FilepathsOf(ParseIndex(prefs))
    \cup UNION {FilepathsOf(ParseIndex(pending[i].value)) :
                    i \in 1..Len(pending)}
    \cup UNION {FilepathsOf(calls[c].snapshot) : c \in Calls}
    \cup FilepathsOf(load.list)

\* C24: savePicture returns only in a step in which Filesystem.writeFile
\* has put the picture's file into byte storage; a filepath held nowhere
\* becomes recorded only in the step in which addNewToGallery goes on after
\* savePicture has returned, as the first record of the list; and when the
\* camera is cancelled or savePicture fails, addNewToGallery rejects and
\* the list, the index, the index writes and byte storage are unchanged.
C24_RecordedAfterWrite ==
    [][\A c \in Calls :
           /\ (calls[c].at # "saved" /\ calls'[c].at = "saved") =>
                  /\ WriteFile(c)
                  /\ InData(calls[c].fileName) \in DOMAIN files'
           /\ AddFinish(c) =>
                  /\ calls[c].at = "saved"
                  /\ photos'[1].filepath.name = calls[c].fileName
           /\ Recorded' \ Recorded # {} =>
                  \E d \in Calls :
                      /\ AddFinish(d)
                      /\ Recorded' \ Recorded = {photos'[1].filepath}
           /\ (CameraCancelled(c) \/ SaveFails(c)) =>
                  /\ outcome' = Rejected("add", NoPath)
                  /\ photos' = photos
                  /\ prefs' = prefs
                  /\ pending' = pending
                  /\ files' = files]_vars

\* A capture failed at savePicture on a gallery that holds a photo, which
\* is still on display, in the index and in byte storage.
C24_Witness ==
    /\ outcome = Rejected("add", NoPath)
    /\ Quiet
    /\ Len(photos) = 1
    /\ Identities(ParseIndex(prefs)) = Identities(photos)
    /\ DOMAIN files = {DeleteName(platform, photos[1].filepath)}
    /\ now > photos[1].dateTaken

\* C25: the load takes the records of the persisted index in their order
\* (none when the index is absent); on the web each read replaces the
\* webviewPath of one record with the data URI of the bytes stored under its
\* filepath and changes nothing else, on a device nothing is read; and the
\* load sets the in-memory list to these records, so that filepath, dateTaken
\* and size are those of the index, and on a device webviewPath as well.
C25_LoadKeepsRecords ==
    [][/\ LoadGet =>
              /\ load'.list = ParseIndex(prefs)
              /\ prefs = NoValue => load'.list = <<>>
              /\ platform = "hybrid" => load'.at = "set"
       /\ LoadReadFile =>
              /\ platform = "web"
              /\ Identities(load'.list) = Identities(load.list)
              /\ \A i \in 1..Len(load.list) :
                     load'.list[i].webviewPath =
                         IF i = load.k
                         THEN DataUrl(files[load.list[i].filepath])
                         ELSE load.list[i].webviewPath
       /\ LoadFinish =>
              /\ photos' = load.list
              /\ platform = "web" =>
                     \A i \in 1..Len(photos') :
                         photos'[i].webviewPath.scheme = "data"]_vars

\* On the web a load has finished with a photo whose webviewPath it
\* replaced: the list holds the records of the index.
C25_Witness ==
    /\ platform = "web"
    /\ load.at = "done"
    /\ photos # <<>>
    /\ photos[1].filepath \in DOMAIN files
    /\ photos[1].webviewPath = DataUrl(files[photos[1].filepath])
    /\ Identities(photos) = Identities(ParseIndex(prefs))
    /\ photos # ParseIndex(prefs)

\* No capture, delete, index write or load is under way.
NothingInFlight ==
    /\ Quiet
    /\ load.at \in {"done", "failed"}

\* C26 (as the specification states it): whenever nothing is in flight, the
\* persisted index and the in-memory list hold the same records in the same
\* order.
C26_QuietIndexIsList ==
    NothingInFlight => Identities(ParseIndex(prefs)) = Identities(photos)

\* C27 (as the specification states it): whenever nothing is in flight, the
\* files the records of the persisted index name are exactly the files in
\* byte storage.
C27_StorageMatchesIndex ==
    NothingInFlight =>
        {DeleteName(platform, filepath) :
             filepath \in FilepathsOf(ParseIndex(prefs))} = DOMAIN files

\* C28 (as the specification states it): a filepath deletePhoto has resolved
\* for never enters the in-memory list or the persisted index again,
\* whatever call started before the deletion completes after it.
C28_DeletedStaysOut ==
    [][\A filepath \in deleted :
           /\ filepath \in FilepathsOf(photos') =>
                  filepath \in FilepathsOf(photos)
           /\ filepath \in FilepathsOf(ParseIndex(prefs')) =>
                  filepath \in FilepathsOf(ParseIndex(prefs))]_vars

\* The records of a list have pairwise distinct filepaths.
DistinctFilepaths(photoList) ==
    Cardinality(FilepathsOf(photoList)) = Len(photoList)

\* C29 (as the specification states it): the records of the in-memory list
\* have pairwise distinct filepaths, also when two captures read the same
\* millisecond; so a deletePhoto that succeeds removes exactly one record of
\* the list it started from, and deleting its file takes away the file of
\* no other photo: a capture whose picture has been stored still has its
\* file.
C29_DistinctFilepaths ==
    [][/\ DistinctFilepaths(photos')
       /\ \A c \in Calls :
              /\ (DeleteFinish(c)
                  /\ calls[c].filepath \in FilepathsOf(calls[c].snapshot)) =>
                     Len(photos') = Len(calls[c].snapshot) - 1
              /\ DeleteFile(c) =>
                     \A d \in Calls :
                         calls[d].at = "saved" =>
                             InData(calls[d].fileName) \in DOMAIN files']_vars

(***************************************************************************)
(* The gallery page: properties                                            *)
(***************************************************************************)
\* C30: while a capture started by either capture button is in flight,
\* isLoading is true and both buttons are disabled, so at most one capture
\* started from the page is in flight; and when a capture succeeds or fails,
\* isLoading is false again and no capture is in flight.
C30_OneCaptureAtATime ==
    [][/\ captures' # <<>> => (isLoading' /\ ButtonDisabled')
       /\ Len(captures') <= 1
       /\ (PageCaptureSucceeds \/ PageCaptureFails) =>
              (~isLoading' /\ captures' = <<>>)
       /\ (handleAddPhoto \/ handleSelectFromGallery) => captures = <<>>]_vars

\* A capture from the picker failed, and a capture from the camera is now
\* in flight with the buttons disabled.
C30_Witness ==
    /\ toasts = <<ErrorMessage("Photos")>>
    /\ Len(captures) = 1
    /\ captures[1].source = "Camera"
    /\ isLoading
    /\ ButtonDisabled

=============================================================================
